---- MODULE Spec2Model ----
(***************************************************************************)
(* Hyatlas launcher: the antivirus wrapper scripts/av_scan.sh and the      *)
(* client-side server list (filter, join), both held in                    *)
(* src/unnamed/part_001.                                                   *)
(*                                                                         *)
(* SpecAv  : one invocation of av_scan.sh, one action per script line.     *)
(* SpecSrv : the server-list page, one action per event handler or         *)
(*           continuation of the async function fetchServers.              *)
(*                                                                         *)
(* Strings that the code inspects character by character (uname output,    *)
(* server names, JSON text, base64 text) are sequences.                    *)
(***************************************************************************)
EXTENDS Integers, Sequences, FiniteSets, TLC

VARIABLES
    \* ---- av_scan.sh: the environment of one invocation ----
    argv1,        \* the positional argument $1, or Unset
    hostOS,       \* what `uname -s` prints on this host
    clamOnPath,   \* whether `command -v clamscan` finds the scanner
    childCode,    \* exit status the scanner / powershell.exe child returns
    \* ---- av_scan.sh: the shell's state ----
    pc,           \* the script line about to run, or "exited"
    ARCHIVE,      \* shell variable ARCHIVE
    OS,           \* shell variable OS
    EXIT_CODE,    \* shell variable EXIT_CODE
    lastRc,       \* $?, the status of the last child process
    status,       \* the wrapper's exit status once pc = "exited"
    stderr,       \* lines written to the error stream
    spawned,      \* external commands run so far, in order
    \* ---- server list page ----
    currentChan,  \* let currentChan
    allServers,   \* let allServers
    listEl,       \* cards in #srv-list (listEl.innerHTML)
    msgEl,        \* #srv-msg textContent
    inputEl,      \* #srv-search value
    calls,        \* fetchServers invocations suspended at an await
    started,      \* number of fetchServers invocations so far
    activeBtn,    \* the .chan-btn carrying class "active"
    pendingServer,\* sessionStorage["pendingServer"]
    location,     \* window.location.href
    hist          \* history: the request whose response filled allServers
                  \* and whether that call succeeded, how the most recently
                  \* started call ended, whether a call has failed with none
                  \* started or succeeded since

avVars  == <<argv1, hostOS, clamOnPath, childCode, pc, ARCHIVE, OS, EXIT_CODE,
             lastRc, status, stderr, spawned>>
srvVars == <<currentChan, allServers, listEl, msgEl, inputEl, calls, started,
             activeBtn, pendingServer, location, hist>>
vars    == <<avVars, srvVars>>

(***************************************************************************)
(*                       PART 1 -- scripts/av_scan.sh                      *)
(***************************************************************************)

Unset == "<unset>"
None  == "<none>"

\* The file system the wrapper is run against: one regular file, one
\* directory, and a path that names nothing.
ValidArchive == "/tmp/archive.zip"
MissingPath  == "/tmp/missing.zip"
Directory    == "/tmp"
RegularFiles == {ValidArchive}

\* Every shape of the positional argument: absent, empty, not existing,
\* existing but not a regular file, a valid regular file.
Arguments == {Unset, "", MissingPath, Directory, ValidArchive}

\* Exit statuses a child process can return.
ExitCodes == 0..255

\* uname -s outputs, as character sequences (the script matches prefixes).
Linux   == <<"L","i","n","u","x">>
Darwin  == <<"D","a","r","w","i","n">>
Mingw64 == <<"M","I","N","G","W","6","4","_","N","T">>
Cygwin  == <<"C","Y","G","W","I","N","_","N","T">>
Msys    == <<"M","S","Y","S","_","N","T">>
FreeBSD == <<"F","r","e","e","B","S","D">>
LinuxLc == <<"l","i","n","u","x">>
Ming    == <<"M","I","N","G">>
HostIdentifiers == {Linux, Darwin, Mingw64, Cygwin, Msys, FreeBSD, LinuxLc, Ming}

\* bash pattern match  [[ "$s" == "p"* ]]
HasPrefix(s, p) == Len(s) >= Len(p) /\ SubSeq(s, 1, Len(p)) = p

\* The validation without its `! -f` half.
InvalidPathNoFileTest(a) == a = ""

\* line 102:  [[ -z "${ARCHIVE}" || ! -f "${ARCHIVE}" ]]
InvalidPath(a) == a = "" \/ a \notin RegularFiles

\* The POSIX test, had it ignored case.
IsPosixIgnoringCase(os) == os = Linux \/ os = Darwin \/ os = LinuxLc

\* line 112:  [[ "${OS}" == "Linux" || "${OS}" == "Darwin" ]]
IsPosix(os) == os = Linux \/ os = Darwin

\* line 134:  [[ "${OS}" == "MINGW"* || "${OS}" == "CYGWIN"* || "${OS}" == "MSYS"* ]]
IsWindows(os) ==
    \/ HasPrefix(os, <<"M","I","N","G","W">>)
    \/ HasPrefix(os, <<"C","Y","G","W","I","N">>)
    \/ HasPrefix(os, <<"M","S","Y","S">>)

\* Diagnostics the script writes (tag, interpolated value).
Diag(tag, val) == [tag |-> tag, val |-> val]

\* `exit n`
Exit(n) == pc' = "exited" /\ status' = n

\* The state after construction of one invocation: the environment is any
\* combination of argument, host, scanner presence and child exit status.
AvStart ==
    /\ argv1 \in Arguments
    /\ hostOS \in HostIdentifiers
    /\ clamOnPath \in BOOLEAN
    /\ childCode \in ExitCodes
    /\ pc = "L101"
    /\ ARCHIVE = None /\ OS = None /\ EXIT_CODE = None
    /\ lastRc = 0
    /\ status = None
    /\ stderr = <<>>
    /\ spawned = <<>>

\* line 99 + 101:  set -euo pipefail ; ARCHIVE="$1"
\* Under `set -u` expanding the unset $1 is a shell error: bash prints
\* "$1: unbound variable" and the non-interactive shell exits with status 1.
AssignArchive ==
    /\ pc = "L101"
    /\ IF argv1 = Unset
         THEN /\ Exit(1)
              /\ stderr' = Append(stderr, Diag("bash: unbound variable", "$1"))
              /\ UNCHANGED ARCHIVE
         ELSE /\ ARCHIVE' = argv1
              /\ pc' = "L102"
              /\ UNCHANGED <<status, stderr>>
    /\ UNCHANGED <<argv1, hostOS, clamOnPath, childCode, OS, EXIT_CODE, lastRc, spawned>>
    /\ UNCHANGED srvVars

\* lines 102-105: argument validation
ValidatePath ==
    /\ pc = "L102"
    /\ IF InvalidPath(ARCHIVE)
         THEN /\ stderr' = Append(stderr, Diag("[av_scan] invalid path", ARCHIVE))
              /\ Exit(2)
         ELSE /\ pc' = "L107"
              /\ UNCHANGED <<status, stderr>>
    /\ UNCHANGED <<argv1, hostOS, clamOnPath, childCode, ARCHIVE, OS, EXIT_CODE, lastRc, spawned>>
    /\ UNCHANGED srvVars

\* line 107:  OS="$(uname -s)"
QueryOS ==
    /\ pc = "L107"
    /\ spawned' = Append(spawned, "uname")
    /\ OS' = hostOS
    /\ pc' = "L112"
    /\ UNCHANGED <<argv1, hostOS, clamOnPath, childCode, ARCHIVE, EXIT_CODE, lastRc, status, stderr>>
    /\ UNCHANGED srvVars

\* line 112: the POSIX branch is entered or skipped
DispatchPosix ==
    /\ pc = "L112"
    /\ pc' = IF IsPosix(OS) THEN "L113" ELSE "L134"
    /\ UNCHANGED <<argv1, hostOS, clamOnPath, childCode, ARCHIVE, OS, EXIT_CODE,
                   lastRc, status, stderr, spawned>>
    /\ UNCHANGED srvVars

\* The lookup under a strict policy: a missing scanner is an error.
LookupClamscanStrict ==
    /\ pc = "L113"
    /\ spawned' = Append(spawned, "command -v clamscan")
    /\ IF ~clamOnPath
         THEN /\ stderr' = Append(stderr, Diag("[av_scan] clamscan not found", ""))
              /\ Exit(2)
         ELSE /\ pc' = "L119"
              /\ UNCHANGED <<status, stderr>>
    /\ UNCHANGED <<argv1, hostOS, clamOnPath, childCode, ARCHIVE, OS, EXIT_CODE, lastRc>>
    /\ UNCHANGED srvVars

\* lines 113-116:  if ! command -v clamscan ; then ... exit 0
\* (a command tested by `if` is exempt from `set -e`)
LookupClamscan ==
    /\ pc = "L113"
    /\ spawned' = Append(spawned, "command -v clamscan")
    /\ IF ~clamOnPath
         THEN /\ stderr' = Append(stderr, Diag("[av_scan] clamscan not found", ""))
              /\ Exit(0)
         ELSE /\ pc' = "L119"
              /\ UNCHANGED <<status, stderr>>
    /\ UNCHANGED <<argv1, hostOS, clamOnPath, childCode, ARCHIVE, OS, EXIT_CODE, lastRc>>
    /\ UNCHANGED srvVars

\* line 119:  clamscan --no-summary "${ARCHIVE}"
\* A simple command outside any condition: under `set -e` (line 99) a
\* non-zero status ends the shell there, with that status. Line 120 is only
\* reached after status 0.
RunClamscan ==
    /\ pc = "L119"
    /\ spawned' = Append(spawned, "clamscan")
    /\ lastRc' = childCode
    /\ IF lastRc' # 0
         THEN /\ Exit(lastRc')
         ELSE /\ pc' = "L120"
              /\ UNCHANGED status
    /\ UNCHANGED <<argv1, hostOS, clamOnPath, childCode, ARCHIVE, OS, EXIT_CODE, stderr>>
    /\ UNCHANGED srvVars

\* lines 120-128:  EXIT_CODE=$? and the three-way mapping
MapExitCode ==
    /\ pc = "L120"
    /\ EXIT_CODE' = lastRc
    /\ IF EXIT_CODE' = 0 THEN Exit(0)
       ELSE IF EXIT_CODE' = 1 THEN Exit(1)
       ELSE Exit(2)
    /\ UNCHANGED <<argv1, hostOS, clamOnPath, childCode, ARCHIVE, OS, lastRc, stderr, spawned>>
    /\ UNCHANGED srvVars

\* line 134: the Windows branch is entered or skipped
DispatchWindows ==
    /\ pc = "L134"
    /\ pc' = IF IsWindows(OS) THEN "L135" ELSE "L145"
    /\ UNCHANGED <<argv1, hostOS, clamOnPath, childCode, ARCHIVE, OS, EXIT_CODE,
                   lastRc, status, stderr, spawned>>
    /\ UNCHANGED srvVars

\* lines 135-142:  powershell.exe ... Start-MpScan ... >/dev/null ; exit 0
\* Again a simple command under `set -e`: a failing launch (any non-zero
\* status, 127 when powershell.exe is not found) ends the shell with that
\* status and the script writes nothing itself.
RunDefender ==
    /\ pc = "L135"
    /\ spawned' = Append(spawned, "powershell.exe")
    /\ lastRc' = childCode
    /\ IF lastRc' # 0 THEN Exit(lastRc') ELSE Exit(0)
    /\ UNCHANGED <<argv1, hostOS, clamOnPath, childCode, ARCHIVE, OS, EXIT_CODE, stderr>>
    /\ UNCHANGED srvVars

\* lines 145-146: unsupported OS
UnsupportedOS ==
    /\ pc = "L145"
    /\ stderr' = Append(stderr, Diag("[av_scan] unsupported OS", OS))
    /\ Exit(2)
    /\ UNCHANGED <<argv1, hostOS, clamOnPath, childCode, ARCHIVE, OS, EXIT_CODE, lastRc, spawned>>
    /\ UNCHANGED srvVars

AvNext ==
    \/ AssignArchive
    \/ ValidatePath
    \/ QueryOS
    \/ DispatchPosix
    \/ LookupClamscan
    \/ RunClamscan
    \/ MapExitCode
    \/ DispatchWindows
    \/ RunDefender
    \/ UnsupportedOS


(***************************************************************************)
(*                 PART 2 -- client-side server list                       *)
(***************************************************************************)

\* Bound of the model.
MaxCalls == 3     \* fetchServers invocations in one page life

\* Strings the code takes apart are sequences of UTF-16 code units.

\* "name"-bearing server objects the backend can return. The names cover
\* upper/lower case, characters JSON must escape (" and \), a Latin-1
\* character above 127 and a character outside Latin-1.
SrvAa    == [name |-> <<65, 97>>]           \* Aa
SrvQuote == [name |-> <<34, 92, 233>>]      \* "\e-acute
SrvZhe   == [name |-> <<1046>>]             \* Cyrillic Zhe
ServerPool == {SrvAa, SrvQuote, SrvZhe}

\* JSON arrays a successful response can carry: no server, two servers that
\* render, and a list holding the server whose name btoa rejects.
ResponseBodies ==
    {<<>>, <<SrvQuote, SrvAa>>, <<SrvAa, SrvZhe>>}

\* data-val of the channel buttons; "" is the "all channels" button.
ChanVals == {"", "stable", "beta"}

\* What the user can have typed into #srv-search:  "", " A ", "x"
Queries == {<<>>, <<32, 65, 32>>, <<120>>}

Absent == "<absent>"

\* sessionStorage.getItem("pendingServer"): nothing stored, or a string.
NoItem  == [stored |-> FALSE, val |-> <<>>]
Item(s) == [stored |-> TRUE,  val |-> s]

\* ---- String.prototype helpers used by applyFilter (line 31-32) ----
WhiteSpace == {9, 10, 11, 12, 13, 32, 160}

RECURSIVE TrimStart(_)
TrimStart(s) ==
    IF s # <<>> /\ Head(s) \in WhiteSpace THEN TrimStart(Tail(s)) ELSE s

RECURSIVE TrimEnd(_)
TrimEnd(s) ==
    IF s # <<>> /\ s[Len(s)] \in WhiteSpace
      THEN TrimEnd(SubSeq(s, 1, Len(s) - 1)) ELSE s

Trim(s) == TrimEnd(TrimStart(s))

LowerUnit(c) ==
    IF c \in 65..90 THEN c + 32
    ELSE IF c \in 192..222 /\ c # 215 THEN c + 32
    ELSE IF c \in 1040..1071 THEN c + 32
    ELSE c

ToLowerCase(s) == [i \in 1..Len(s) |-> LowerUnit(s[i])]

Includes(s, q) ==
    \E i \in 0..(Len(s) - Len(q)) : SubSeq(s, i + 1, i + Len(q)) = q

\* ---- JSON.stringify / JSON.parse of a server object ----
\* {"name":"<escaped name>"}
JsonPrefix == <<123, 34, 110, 97, 109, 101, 34, 58, 34>>   \* {"name":"
JsonSuffix == <<34, 125>>                                  \* "}

RECURSIVE QuoteJSON(_)
QuoteJSON(s) ==
    IF s = <<>> THEN <<>>
    ELSE LET c == Head(s)
         IN (IF c = 34 \/ c = 92 THEN <<92, c>> ELSE <<c>>) \o QuoteJSON(Tail(s))

JSONstringify(srv) == JsonPrefix \o QuoteJSON(srv.name) \o JsonSuffix

\* A thrown exception, or a returned value.
Throw(e)  == [threw |-> TRUE,  val |-> e]
Return(v) == [threw |-> FALSE, val |-> v]

\* Reads string characters up to the closing quote and returns
\* <<characters, rest>>, or throws SyntaxError.
RECURSIVE ReadString(_, _)
ReadString(t, acc) ==
    IF t = <<>> THEN Throw("SyntaxError")
    ELSE IF Head(t) = 34 THEN Return(<<acc, Tail(t)>>)
    ELSE IF Head(t) = 92
      THEN IF Len(t) >= 2 /\ t[2] \in {34, 92}
             THEN ReadString(SubSeq(t, 3, Len(t)), Append(acc, t[2]))
             ELSE Throw("SyntaxError")
    ELSE ReadString(Tail(t), Append(acc, Head(t)))

JSONparse(t) ==
    IF ~(Len(t) >= Len(JsonPrefix) /\ SubSeq(t, 1, Len(JsonPrefix)) = JsonPrefix)
      THEN Throw("SyntaxError")
    ELSE LET r == ReadString(SubSeq(t, Len(JsonPrefix) + 1, Len(t)), <<>>)
         IN IF r.threw THEN r
            ELSE IF r.val[2] = <<125>> THEN Return([name |-> r.val[1]])
            ELSE Throw("SyntaxError")

\* ---- btoa / atob ----
Pad == 64

\* index in the base64 alphabet -> code unit  (A-Z a-z 0-9 + / and '=')
B64Unit(i) ==
    IF i < 26 THEN 65 + i
    ELSE IF i < 52 THEN 97 + (i - 26)
    ELSE IF i < 62 THEN 48 + (i - 52)
    ELSE IF i = 62 THEN 43
    ELSE IF i = 63 THEN 47
    ELSE 61

B64Index(c) ==
    IF c \in 65..90 THEN c - 65
    ELSE IF c \in 97..122 THEN c - 97 + 26
    ELSE IF c \in 48..57 THEN c - 48 + 52
    ELSE IF c = 43 THEN 62
    ELSE IF c = 47 THEN 63
    ELSE Pad

RECURSIVE B64Encode(_)
B64Encode(b) ==
    IF b = <<>> THEN <<>>
    ELSE IF Len(b) = 1
      THEN <<b[1] \div 4, (b[1] % 4) * 16, Pad, Pad>>
    ELSE IF Len(b) = 2
      THEN <<b[1] \div 4, (b[1] % 4) * 16 + b[2] \div 16, (b[2] % 16) * 4, Pad>>
    ELSE <<b[1] \div 4, (b[1] % 4) * 16 + b[2] \div 16,
           (b[2] % 16) * 4 + b[3] \div 64, b[3] % 64>>
         \o B64Encode(SubSeq(b, 4, Len(b)))

RECURSIVE B64Decode(_)
B64Decode(x) ==
    IF Len(x) < 4 THEN <<>>
    ELSE LET b1 == x[1] * 4 + x[2] \div 16
             b2 == (x[2] % 16) * 16 + x[3] \div 4
             b3 == (x[3] % 4) * 64 + x[4]
         IN (IF x[3] = Pad THEN <<b1>>
             ELSE IF x[4] = Pad THEN <<b1, b2>>
             ELSE <<b1, b2, b3>>) \o B64Decode(SubSeq(x, 5, Len(x)))

\* A btoa that keeps the low byte of each code unit instead of throwing.
btoaTruncating(s) ==
    LET e == B64Encode([i \in 1..Len(s) |-> s[i] % 256])
    IN Return([i \in 1..Len(e) |-> B64Unit(e[i])])

btoa(s) ==
    IF \E i \in 1..Len(s) : s[i] > 255 THEN Throw("InvalidCharacterError")
    ELSE LET e == B64Encode(s)
         IN Return([i \in 1..Len(e) |-> B64Unit(e[i])])

atob(s) == B64Decode([i \in 1..Len(s) |-> B64Index(s[i])])

\* ---- makeCard (line 44-59) ----
\* A card: its title text, the data-srv attribute of its join button, and
\* (history) the element of allServers it was rendered from.
makeCard(s) ==
    LET d == btoa(JSONstringify(s))
    IN IF d.threw THEN d
       ELSE Return([title |-> s.name, dataSrv |-> d.val, of |-> s])

\* ---- applyFilter (line 30-35) ----
\* The result of running it on (allServers, input value): either it throws
\* (from makeCard, before listEl or msgEl is assigned) or it returns the new
\* listEl and msgEl.
FilterSubset(all, input) ==
    LET q == ToLowerCase(Trim(input))
    IN SelectSeq(all, LAMBDA s : q = <<>> \/ Includes(ToLowerCase(s.name), q))

applyFilter(all, input) ==
    LET subset == FilterSubset(all, input)
        cards  == [i \in 1..Len(subset) |-> makeCard(subset[i])]
    IN IF \E i \in 1..Len(cards) : cards[i].threw
         THEN Throw("InvalidCharacterError")
         ELSE Return([list |-> [i \in 1..Len(cards) |-> cards[i].val],
                      msg  |-> IF Len(subset) > 0 THEN "" ELSE "No server match."])

\* ---- fetchServers (line 17-27) ----
\* line 21: the request URL. The channel values are unreserved characters
\* only, which encodeURIComponent leaves as they are.
encodeURIComponent(s) == s
Url(chan) ==
    IF chan # "" THEN [path |-> "/api/servers", channel |-> encodeURIComponent(chan)]
    ELSE [path |-> "/api/servers", channel |-> Absent]

Loading == "Loading ..."

\* line 18-22: the synchronous part of a fetchServers() call, up to the
\* first await. The history notes the call as pending.
StartFetch(chan) ==
    /\ msgEl' = Loading
    /\ listEl' = <<>>
    /\ started' = started + 1
    /\ calls' = calls \cup {[id |-> started + 1, url |-> Url(chan), at |-> "fetch"]}
    /\ hist' = [hist EXCEPT !.last = "pending", !.failed = FALSE]

\* line 26: catch(err){msgEl.textContent=err.message;}  ends the call.
CatchErr(c, message) ==
    /\ msgEl' = message
    /\ calls' = calls \ {c}
    /\ hist' = [hist EXCEPT !.last = IF c.id = started THEN "failed" ELSE @,
                            !.failed = TRUE, !.err = message]

OnPage == location = "/servers"

\* The page after its script has run: line 83 has called fetchServers(),
\* which is suspended at `await fetch(url)`.
SrvStart ==
    /\ currentChan = ""
    /\ allServers = <<>>
    /\ listEl = <<>>
    /\ msgEl = Loading
    /\ inputEl = <<>>
    /\ started = 1
    /\ calls = {[id |-> 1, url |-> Url(""), at |-> "fetch"]}
    /\ activeBtn = None
    /\ pendingServer = NoItem
    /\ location = "/servers"
    /\ hist = [allUrl |-> Url(""), allOk |-> FALSE,
               last |-> "pending",
               failed |-> FALSE, err |-> ""]

\* line 70-76: click on a channel button
ChanClick(v) ==
    /\ OnPage /\ started < MaxCalls
    /\ activeBtn' = v
    /\ currentChan' = v
    /\ StartFetch(currentChan')
    /\ UNCHANGED <<allServers, inputEl, pendingServer, location>>
    /\ UNCHANGED avVars

\* line 80: refBtn.onclick = fetchServers
RefreshClick ==
    /\ OnPage /\ started < MaxCalls
    /\ StartFetch(currentChan)
    /\ UNCHANGED <<currentChan, allServers, inputEl, activeBtn, pendingServer, location>>
    /\ UNCHANGED avVars

\* line 79: inputEl.oninput = applyFilter. An exception escaping the handler
\* leaves listEl and msgEl as they were.
Input(v) ==
    /\ OnPage
    /\ inputEl' = v
    /\ LET r == applyFilter(allServers, inputEl')
       IN IF r.threw THEN UNCHANGED <<listEl, msgEl>>
          ELSE listEl' = r.val.list /\ msgEl' = r.val.msg
    /\ UNCHANGED <<currentChan, allServers, calls, started, activeBtn,
                   pendingServer, location, hist>>
    /\ UNCHANGED avVars

\* line 22-23: `await fetch(url)` settles for call c: the request is
\* rejected (network error), answered with a non-ok status, or answered ok,
\* in which case the call goes on to `await res.json()`.
FetchSettled(c, how) ==
    /\ OnPage /\ c \in calls /\ c.at = "fetch"
    /\ CASE how = "rejected" -> CatchErr(c, "Failed to fetch")
         [] how = "not-ok"   -> CatchErr(c, "Failed to fetch list")
         [] how = "ok"       -> /\ calls' = (calls \ {c}) \cup {[c EXCEPT !.at = "json"]}
                                /\ UNCHANGED <<msgEl, hist>>
    /\ UNCHANGED <<currentChan, allServers, listEl, inputEl, started, activeBtn,
                   pendingServer, location>>
    /\ UNCHANGED avVars

\* line 24-25: `await res.json()` settles for call c: the body is not JSON
\* (json() rejects), or it is an array of servers, which is assigned to
\* allServers before applyFilter() runs; an exception from applyFilter is
\* caught by line 26.
NotJson == [json |-> FALSE, val |-> <<>>]
JsonBodies == {[json |-> TRUE, val |-> l] : l \in ResponseBodies} \cup {NotJson}
JsonSettled(c, body) ==
    /\ OnPage /\ c \in calls /\ c.at = "json"
    /\ IF ~body.json
         THEN /\ CatchErr(c, "Unexpected token")
              /\ UNCHANGED <<allServers, listEl>>
         ELSE /\ allServers' = body.val
              /\ LET r == applyFilter(allServers', inputEl)
                 IN IF r.threw
                      THEN /\ msgEl' = r.val
                           /\ UNCHANGED listEl
                           /\ hist' = [hist EXCEPT
                                          !.last = IF c.id = started THEN "failed" ELSE @,
                                          !.failed = TRUE, !.err = r.val,
                                          !.allUrl = c.url,
                                          !.allOk = FALSE]
                      ELSE /\ listEl' = r.val.list
                           /\ msgEl' = r.val.msg
                           /\ hist' = [hist EXCEPT
                                          !.last = IF c.id = started THEN "ok" ELSE @,
                                          !.failed = FALSE,
                                          !.allUrl = c.url,
                                          !.allOk = TRUE]
              /\ calls' = calls \ {c}
    /\ UNCHANGED <<currentChan, inputEl, started, activeBtn, pendingServer, location>>
    /\ UNCHANGED avVars

\* line 62-67: click on the join button of card i (or on the icon inside it:
\* closest(".join-btn") finds the button). An exception from atob or
\* JSON.parse escapes the handler before anything is stored.
JoinClick(i) ==
    /\ OnPage /\ i \in 1..Len(listEl)
    /\ LET srv == JSONparse(atob(listEl[i].dataSrv))
       IN IF srv.threw THEN UNCHANGED <<pendingServer, location>>
          ELSE /\ pendingServer' = Item(JSONstringify(srv.val))
               /\ location' = "/loading"
    /\ UNCHANGED <<currentChan, allServers, listEl, msgEl, inputEl, calls, started,
                   activeBtn, hist>>
    /\ UNCHANGED avVars

\* line 63 and line 71: a click on anything that is neither inside a join
\* button nor a channel button; both click handlers return at once.
OtherClick ==
    /\ OnPage
    /\ UNCHANGED <<currentChan, allServers, listEl, msgEl, inputEl, calls, started,
                   activeBtn, pendingServer, location, hist>>
    /\ UNCHANGED avVars

SrvNext ==
    \/ \E v \in ChanVals : ChanClick(v)
    \/ RefreshClick
    \/ \E v \in Queries : Input(v)
    \/ \E c \in calls : \E how \in {"rejected", "not-ok", "ok"} : FetchSettled(c, how)
    \/ \E c \in calls : \E body \in JsonBodies : JsonSettled(c, body)
    \/ \E i \in 1..Len(listEl) : JoinClick(i)
    \/ OtherClick

\* The other program is not running.
AvIdle ==
    /\ argv1 = Unset /\ hostOS = Linux /\ clamOnPath = FALSE /\ childCode = 0
    /\ pc = "exited" /\ ARCHIVE = None /\ OS = None /\ EXIT_CODE = None
    /\ lastRc = 0 /\ status = None /\ stderr = <<>> /\ spawned = <<>>

SrvIdle ==
    /\ currentChan = "" /\ allServers = <<>> /\ listEl = <<>> /\ msgEl = ""
    /\ inputEl = <<>> /\ calls = {} /\ started = 0 /\ activeBtn = None
    /\ pendingServer = NoItem /\ location = "about:blank"
    /\ hist = [allUrl |-> Url(""), allOk |-> FALSE,
               last |-> "none",
               failed |-> FALSE, err |-> ""]

AvInit  == AvStart /\ SrvIdle
SrvInit == SrvStart /\ AvIdle

SpecAv  == AvInit /\ [][AvNext]_vars
SpecSrv == SrvInit /\ [][SrvNext]_vars

(***************************************************************************)
(*                    PART 3 -- properties of av_scan.sh                   *)
(***************************************************************************)

Exited      == pc = "exited"
PosixHost   == hostOS \in {Linux, Darwin}
WindowsHost ==
    \/ HasPrefix(hostOS, <<"M","I","N","G","W">>)
    \/ HasPrefix(hostOS, <<"C","Y","G","W","I","N">>)
    \/ HasPrefix(hostOS, <<"M","S","Y","S">>)
Ran(cmd)    == \E i \in 1..Len(spawned) : spawned[i] = cmd
Wrote(d)    == \E i \in 1..Len(stderr) : stderr[i] = d

\* C1: on a POSIX host with a valid file and clamscan on the path, the
\* wrapper's exit status is 0 for scanner status 0, 1 for scanner status 1
\* and 2 for every other scanner status in 0..255.
C1_ThreeWayMapping ==
    (Exited /\ PosixHost /\ argv1 = ValidArchive /\ clamOnPath)
        => status = (IF childCode = 0 THEN 0 ELSE IF childCode = 1 THEN 1 ELSE 2)

\* C2: every invocation that ends, ends with exit status 0, 1 or 2.
C2_StatusIsTriState == Exited => status \in {0, 1, 2}

\* C3: with a path argument that is empty or names no existing regular file
\* the wrapper runs no external command at all (no uname, no scanner lookup,
\* no scanner) and, once it has exited, its status is 2 and the invalid-path
\* diagnostic was written -- on every host.
C3_InvalidPathShortCircuits ==
    (argv1 \in {"", MissingPath, Directory})
        => /\ spawned = <<>>
           /\ OS = None
           /\ Exited => (status = 2 /\ Wrote(Diag("[av_scan] invalid path", argv1)))

C3_Witness ==
    /\ Exited /\ argv1 = MissingPath /\ hostOS = Mingw64 /\ clamOnPath
    /\ status = 2 /\ spawned = <<>>

\* C4: invoked with no positional argument the wrapper exits 2, never 1 or 0.
C4_NoArgumentIsError == (Exited /\ argv1 = Unset) => status = 2

C6_DefenderLaunch ==
    (Exited /\ WindowsHost /\ argv1 = ValidArchive)
        => /\ status = 0 <=> childCode = 0
           /\ childCode # 0 => (status = 2 /\ stderr # <<>>)

\* C7: on a host that is neither Linux nor Darwin nor MINGW*, CYGWIN*, MSYS*,
\* whatever path is given, no scanner is run, the exit status is 2, and with
\* a valid file the diagnostic carries the host identifier.
C7_UnsupportedHost ==
    (~PosixHost /\ ~WindowsHost /\ argv1 # Unset)
        => /\ ~Ran("clamscan") /\ ~Ran("powershell.exe") /\ ~Ran("command -v clamscan")
           /\ Exited => status = 2
           /\ (Exited /\ argv1 = ValidArchive)
                 => Wrote(Diag("[av_scan] unsupported OS", hostOS))

C7_Witness ==
    /\ Exited /\ hostOS = LinuxLc /\ argv1 = ValidArchive /\ ~clamOnPath
    /\ status = 2 /\ Wrote(Diag("[av_scan] unsupported OS", LinuxLc))

(***************************************************************************)
(*                  PART 4 -- properties of the server list                *)
(***************************************************************************)

C9_ListIsForCurrentChannel ==
    (OnPage /\ calls = {} /\ hist.last = "ok")
        => hist.allUrl = Url(currentChan)

\* C10: once a fetchServers call has failed on a non-ok response and the
\* list is empty, search input does not bring the servers of an earlier
\* successful response back: the list stays empty until another fetchServers
\* call starts or succeeds.
C10_NoStaleServersAfterFailure ==
    [][ ( /\ OnPage /\ hist.failed /\ hist.err = "Failed to fetch list"
          /\ hist.allOk
          /\ listEl = <<>>
          /\ \E v \in Queries : Input(v) )
            => listEl' = <<>> ]_vars

====
